---- MODULE Spec2Model ----
(***************************************************************************)
(* A model of the C++ unit-test generation pipeline:                       *)
(*   - call_llm           (src/src/llm_client.py): the bounded retry loop  *)
(*   - collect_cpp_files  (src/src/main.py): source discovery              *)
(*   - main               (src/src/main.py) with build_project, run_tests  *)
(*     and run_coverage   (src/src/build_utils.py): the four stages        *)
(* Three specifications share the module: SpecLLM, SpecWalk and SpecMain   *)
(* (SpecRuns is SpecMain with the program started again on the same        *)
(* directories).  Each one holds the variables of the others constant.     *)
(***************************************************************************)
EXTENDS Integers, Sequences, FiniteSets, TLC

VARIABLES
    \* ---- call_llm
    max_retries,    \* the max_retries argument
    attempt,        \* the loop variable of `for attempt in range(max_retries)`
    llm_pc,         \* "loop" | "returned" | "raised"
    trace,          \* what call_llm did, in order: requests sent and sleeps
    llm_ret,        \* the value returned ("None" when nothing was returned)
    llm_err,        \* the message of the exception raised ("" when none)
    \* ---- collect_cpp_files
    project_dir,    \* the project_dir argument, a sequence of path segments
    tree,           \* the files below project_dir: records [dir, name]
    walk_todo,      \* directories os.walk has still to yield, in order
    found,          \* cpp_files, the list being built
    walk_pc,        \* "walk" | "done"
    \* ---- main
    pc,             \* where main is
    cpp_files,      \* the list collect_cpp_files returned
    idx,            \* position in the loop being run
    test_dir,       \* the generated_tests directory: file name -> content
    test_files,     \* the listing taken at the start of stage 2
    log,            \* what main did, in order
    build_log,      \* the log build_project returned
    reported,       \* the coverage report path printed ("" when none)
    run             \* which run of the program this is

llm_vars  == <<max_retries, attempt, llm_pc, trace, llm_ret, llm_err>>
walk_vars == <<project_dir, tree, walk_todo, found, walk_pc>>
main_vars == <<pc, cpp_files, idx, test_dir, test_files, log, build_log,
               reported, run>>
vars == <<llm_vars, walk_vars, main_vars>>

\* ---------------------------------------------------------------- bounds
MaxRetries == 3

\* ------------------------------------------------------------- helpers
Range(s) == {s[i] : i \in 1..Len(s)}

Last(s) == s[Len(s)]

\* ===================================================================== *
\*  call_llm                                                             *
\* ===================================================================== *

\* time.sleep(2) after a connection failure, time.sleep(1) after a timeout
ConnRetryDelay == 2
TimeoutRetryDelay == 1

MsgUnreachable ==
    "Failed to connect to Ollama. Make sure Ollama is running on localhost:11434"
MsgTimedOut == "LLM request timed out"
MsgApiError == "LLM API error"

\* Completion texts the service may produce.
Texts == {"TEST(A, b) {}", "not even code"}

\* The exceptions requests.post raises.  requests.exceptions declares
\*   class ConnectTimeout(ConnectionError, Timeout)
\*   class ReadTimeout(Timeout)
\* so a timeout while connecting is an instance of both classes.
PostExceptions ==
    {"ConnectionError", "ConnectTimeout", "ReadTimeout", "TooManyRedirects"}

IsConnectionError(e) == e \in {"ConnectionError", "ConnectTimeout"}
IsTimeout(e) == e \in {"ConnectTimeout", "ReadTimeout"}

\* What one requests.post can give: an exception, or a response with a
\* status and a JSON payload (with or without the "response" field).
Payloads == {[response |-> t] : t \in Texts} \cup {[error |-> "model not found"]}

PostOutcomes ==
    [exc : PostExceptions, status : {0}, json : {<<>>}]
    \cup [exc : {"none"}, status : {200, 404, 500}, json : Payloads]

\* The body of the try: post, raise_for_status, json()["response"].
\* Gives the exception raised ("none" when the body returns) and the value.
TryBody(o) ==
    IF o.exc # "none" THEN [exc |-> o.exc, value |-> "None"]
    ELSE IF o.status >= 400 /\ o.status < 600
         THEN [exc |-> "HTTPError", value |-> "None"]
    ELSE IF "response" \notin DOMAIN o.json
         THEN [exc |-> "KeyError", value |-> "None"]
    ELSE [exc |-> "none", value |-> o.json.response]

\* Handler with the Timeout clause written before the ConnectionError clause.
HandlerTimeoutFirst(e) ==
    IF IsTimeout(e) THEN "timeout"
    ELSE IF IsConnectionError(e) THEN "connection"
    ELSE "other"

\* The first except clause that matches, in the order the clauses are
\* written: ConnectionError, Timeout, Exception.
Handler(e) ==
    IF IsConnectionError(e) THEN "connection"
    ELSE IF IsTimeout(e) THEN "timeout"
    ELSE "other"

\* Entries of the trace: a request with what came of it (the exception its
\* try body raised, "none" when it returned, and the completion text the
\* service sent, "" when it sent none), or a sleep with its length.
Completion(o) ==
    IF o.exc = "none" /\ "response" \in DOMAIN o.json THEN o.json.response ELSE ""

PostEvent(e, text) == [ev |-> "post", exc |-> e, secs |-> 0, text |-> text]
SleepEvent(n) == [ev |-> "sleep", exc |-> "", secs |-> n, text |-> ""]

\* AttemptsRemain written as `attempt < max_retries`.
AttemptsRemainOffByOne(a, m) == a < m

\* `attempt < max_retries - 1`: another attempt remains.
AttemptsRemain(a, m) == a < m - 1

\* Delay with the two sleeps exchanged.
DelaySwapped(h) == IF h = "connection" THEN TimeoutRetryDelay ELSE ConnRetryDelay

\* The sleep of each retrying handler.
Delay(h) == IF h = "connection" THEN ConnRetryDelay ELSE TimeoutRetryDelay

\* ExhaustedMessage with the two messages exchanged.
ExhaustedMessageSwapped(h) == IF h = "connection" THEN MsgTimedOut ELSE MsgUnreachable

\* The exception each retrying handler raises on the last attempt.
ExhaustedMessage(h) == IF h = "connection" THEN MsgUnreachable ELSE MsgTimedOut

\* HandlerRaises with `except Exception` retrying like the other two.
RetryingOther(h, a, m) == ~AttemptsRemain(a, m)

\* Whether the handler h ends the call on attempt a.
HandlerRaises(h, a, m) == h = "other" \/ ~AttemptsRemain(a, m)

LLMInit ==
    /\ max_retries \in 0..MaxRetries
    /\ attempt = 0
    /\ llm_pc = "loop"
    /\ trace = <<>>
    /\ llm_ret = "None"
    /\ llm_err = ""

\* One iteration of the for loop whose try body returns.
AttemptReturns(o) ==
    /\ llm_pc = "loop"
    /\ attempt < max_retries
    /\ TryBody(o).exc = "none"
    /\ trace' = Append(trace, PostEvent("none", Completion(o)))
    /\ llm_ret' = TryBody(o).value
    /\ llm_pc' = "returned"
    /\ UNCHANGED <<max_retries, attempt, llm_err>>
    /\ UNCHANGED <<walk_vars, main_vars>>

\* One iteration whose try body raises and whose handler sleeps: the loop goes on.
AttemptRetries(o) ==
    LET e == TryBody(o).exc
        h == Handler(e)
    IN  /\ llm_pc = "loop"
        /\ attempt < max_retries
        /\ e # "none"
        /\ ~HandlerRaises(h, attempt, max_retries)
        /\ trace' = trace \o <<PostEvent(e, Completion(o)), SleepEvent(Delay(h))>>
        /\ attempt' = attempt + 1
        /\ UNCHANGED <<max_retries, llm_pc, llm_ret, llm_err>>
        /\ UNCHANGED <<walk_vars, main_vars>>

\* One iteration whose try body raises and whose handler raises.
AttemptRaises(o) ==
    LET e == TryBody(o).exc
        h == Handler(e)
    IN  /\ llm_pc = "loop"
        /\ attempt < max_retries
        /\ e # "none"
        /\ HandlerRaises(h, attempt, max_retries)
        /\ trace' = Append(trace, PostEvent(e, Completion(o)))
        /\ llm_err' = IF h = "other" THEN MsgApiError ELSE ExhaustedMessage(h)
        /\ llm_pc' = "raised"
        /\ UNCHANGED <<max_retries, attempt, llm_ret>>
        /\ UNCHANGED <<walk_vars, main_vars>>

\* range(max_retries) is exhausted: the function falls off its end (None).
LoopExhausted ==
    /\ llm_pc = "loop"
    /\ attempt >= max_retries
    /\ llm_pc' = "returned"
    /\ UNCHANGED <<max_retries, attempt, trace, llm_ret, llm_err>>
    /\ UNCHANGED <<walk_vars, main_vars>>

LLMNext ==
    \/ \E o \in PostOutcomes : AttemptReturns(o)
    \/ \E o \in PostOutcomes : AttemptRetries(o)
    \/ \E o \in PostOutcomes : AttemptRaises(o)
    \/ LoopExhausted

\* ===================================================================== *
\*  collect_cpp_files                                                    *
\* ===================================================================== *
\* A path segment and a file name are sequences of atoms (pieces of text);
\* the atom "third_party" is the only text in which that word occurs, so a
\* substring test for it is a test for the atom in the joined text.

MaxDepth == 2
MaxFiles == 2

ExcludedName == <<"third_party">>

DirSegments == {<<"src">>, <<"third_party">>, <<"my_", "third_party">>}

FileNames == {<<"a", ".cpp">>, <<"b", ".cc">>, <<"c", ".h">>}

ProjectDirs ==
    { << <<"home">>, <<"orgChartApi-master">> >>,
      << <<"third_party", "_demo">>, <<"orgChartApi-master">> >>,
      << <<"third_party">>, <<"orgChartApi-master">> >> }

RECURSIVE SeqsUpTo(_, _)
SeqsUpTo(S, n) ==
    IF n = 0 THEN {<<>>}
    ELSE LET P == SeqsUpTo(S, n - 1)
         IN  P \cup {Append(p, x) : p \in P, x \in S}

RECURSIVE SubsetsUpTo(_, _)
SubsetsUpTo(S, n) ==
    IF n = 0 THEN {{}}
    ELSE LET P == SubsetsUpTo(S, n - 1)
         IN  P \cup {p \cup {x} : p \in P, x \in S}

CandidateDirs == SeqsUpTo(DirSegments, MaxDepth)
CandidateFiles == [dir : CandidateDirs, name : FileNames]

\* os.path.join over the segments: the text of the path, "/" between segments.
RECURSIVE JoinPath(_)
JoinPath(segs) ==
    IF Len(segs) = 0 THEN <<>>
    ELSE IF Len(segs) = 1 THEN segs[1]
    ELSE segs[1] \o <<"/">> \o JoinPath(Tail(segs))

\* Python's `needle in hay` on strings.
Contains(hay, needle) ==
    \E i \in 0..(Len(hay) - Len(needle)) :
        SubSeq(hay, i + 1, i + Len(needle)) = needle

\* file.endswith(".cc") or file.endswith(".cpp")
EndsWithSourceSuffix(name) ==
    Len(name) > 0 /\ (Last(name) = ".cc" \/ Last(name) = ".cpp")

\* `"third_party" in root`, root being the text of the directory's path.
RootIsSkipped(root) == Contains(JoinPath(root), ExcludedName)

\* The directories of the tree: every prefix of a file's directory.
DirsOf(t) == UNION {{SubSeq(f.dir, 1, k) : k \in 0..Len(f.dir)} : f \in t}

SubDirs(t, d) == {e \in DirsOf(t) : Len(e) = Len(d) + 1 /\ SubSeq(e, 1, Len(d)) = d}

FilesIn(t, d) == {f \in t : f.dir = d}

\* The orders in which a listing may give the members of S.
Orders(S) == {s \in [1..Cardinality(S) -> S] : Range(s) = S}

WalkInit ==
    /\ project_dir \in ProjectDirs
    /\ tree \in SubsetsUpTo(CandidateFiles, MaxFiles)
    /\ walk_todo = << <<>> >>
    /\ found = <<>>
    /\ walk_pc = "walk"

\* os.walk yields a directory whose path contains the name: `continue`.
\* The walk still descends into its sub-directories.
WalkSkip ==
    /\ walk_pc = "walk"
    /\ walk_todo # <<>>
    /\ RootIsSkipped(project_dir \o Head(walk_todo))
    /\ \E subs \in Orders(SubDirs(tree, Head(walk_todo))) :
           walk_todo' = subs \o Tail(walk_todo)
    /\ UNCHANGED <<project_dir, tree, found, walk_pc>>
    /\ UNCHANGED <<llm_vars, main_vars>>

\* os.walk yields any other directory: its source files are appended.
WalkCollect ==
    /\ walk_pc = "walk"
    /\ walk_todo # <<>>
    /\ ~RootIsSkipped(project_dir \o Head(walk_todo))
    /\ \E subs \in Orders(SubDirs(tree, Head(walk_todo))),
          files \in Orders({f \in FilesIn(tree, Head(walk_todo)) :
                               EndsWithSourceSuffix(f.name)}) :
           /\ walk_todo' = subs \o Tail(walk_todo)
           /\ found' = found \o files
    /\ UNCHANGED <<project_dir, tree, walk_pc>>
    /\ UNCHANGED <<llm_vars, main_vars>>

\* os.walk is exhausted: return cpp_files.
WalkReturn ==
    /\ walk_pc = "walk"
    /\ walk_todo = <<>>
    /\ walk_pc' = "done"
    /\ UNCHANGED <<project_dir, tree, walk_todo, found>>
    /\ UNCHANGED <<llm_vars, main_vars>>

WalkNext == WalkSkip \/ WalkCollect \/ WalkReturn

\* ===================================================================== *
\*  main, build_project, run_tests, run_coverage                         *
\* ===================================================================== *

MaxSources == 2
MaxRuns == 2

\* Source files discovery can return (two of them share a base name).
SourcePaths ==
    { [dir |-> << <<"controllers">> >>, name |-> <<"a", ".cc">>],
      [dir |-> << <<"models">> >>,      name |-> <<"a", ".cc">>],
      [dir |-> << <<"models">> >>,      name |-> <<"b", ".cpp">>] }

\* The lists collect_cpp_files can return: each file once.
SourceLists ==
    {s \in SeqsUpTo(SourcePaths, MaxSources) :
        \A i, j \in 1..Len(s) : i # j => s[i] # s[j]}

\* os.path.join(root, file), as text
PathText(f) == JoinPath(Append(f.dir, f.name))

\* f"test_{os.path.basename(cpp_file)}"
TestName(f) == <<"test_">> \o f.name

BuildDir == <<"build">>

\* os.path.join(build_dir, "coverage/index.html")
CoverageReport(dir) == dir \o <<"/", "coverage/index.html">>

\* A file's content.  The text the service returns is the service's own; it
\* is tagged with the source file whose prompt it answers and with the stage.
NoSource == [dir |-> <<>>, name |-> <<>>]
EmptyFile == [from |-> NoSource, stage |-> "empty"]
InitialTest(f) == [from |-> f, stage |-> "initial"]
RefinedTest(c) == [from |-> c.from, stage |-> "refined"]

\* How one pass through a try block of stage 1 or 2 can go.
ItemOutcomes ==
    {"ok", "read_error", "template_error", "llm_error", "open_error", "write_error"}

\* write_file(path, content): open(path, "w") truncates or creates the file,
\* then f.write fills it.
WriteFile(d, n, c, outcome) ==
    IF outcome = "ok" THEN [m \in DOMAIN d \cup {n} |-> IF m = n THEN c ELSE d[m]]
    ELSE IF outcome = "write_error"
         THEN [m \in DOMAIN d \cup {n} |-> IF m = n THEN EmptyFile ELSE d[m]]
    ELSE d

Event(op, arg, ok) == [op |-> op, arg |-> arg, ok |-> ok]

\* AfterItem with the except clause ending in `break`.
AfterItemBreak(i, ok, n) == IF ok THEN i + 1 ELSE n + 1

\* Where a loop goes after an item: the except clause ends in `continue`.
AfterItem(i, ok, n) == i + 1

\* build_project: the configure step, then the build step, both check=True.
\* Each step is [rc, out, err]; gives <<success, log>>.
BuildProject(configure, build) ==
    IF configure.rc # 0 THEN <<FALSE, configure.err>>
    ELSE IF build.rc # 0 THEN <<FALSE, build.err>>
    ELSE <<TRUE, build.out>>

ConfigureResults ==
    { [rc |-> 0, out |-> <<"-- Configuring done">>, err |-> <<>>],
      [rc |-> 1, out |-> <<>>, err |-> <<"CMake Error">>] }

BuildResults ==
    { [rc |-> 0, out |-> <<"Built target">>, err |-> <<>>],
      [rc |-> 2, out |-> <<"Building">>, err |-> <<"error: X">>] }

\* run_tests: success is `returncode == 0`.
TestsPassed(rc) == rc = 0

\* AfterBuild with stage 4 entered whatever the build gave.
AfterBuildAlwaysTests(success) == "tests"

\* Stage 3's branch on build_success.
AfterBuild(success) == IF success THEN "tests" ELSE "fix"

\* AfterTests with coverage generated whatever the tests gave.
AfterTestsAlwaysCoverage(success) == "coverage"

\* Stage 4's branch on test_success.
AfterTests(success) == IF success THEN "coverage" ELSE "done"

FixTemplate == <<"fix_build.yaml">>

\* f"{yaml_prompt}\n\nBuild Log:\n{build_log}"
FixPrompt(template, blog) == template \o <<"\n\nBuild Log:\n">> \o blog

\* How a subprocess.run without check can go: the tool's exit status, or
\* the tool cannot be started (FileNotFoundError).
ToolOutcomes == {"zero", "nonzero", "missing"}

\* run_coverage: lcov, then genhtml, then the path.  "raise" when a tool
\* cannot be started.
RunCoverage(dir, lcov, genhtml) ==
    IF lcov = "missing" THEN <<"raise", <<>>>>
    ELSE IF genhtml = "missing" THEN <<"raise", <<>>>>
    ELSE <<"return", CoverageReport(dir)>>

MainInit ==
    /\ pc = "generate"
    /\ cpp_files \in SourceLists
    /\ idx = 1
    /\ test_dir = <<>>
    /\ test_files = <<>>
    /\ log = <<>>
    /\ build_log = <<>>
    /\ reported = <<>>
    /\ run = 1

\* Stage 1, one pass of the loop over cpp_files (try and except together).
Generate(outcome) ==
    /\ pc = "generate"
    /\ idx <= Len(cpp_files)
    /\ LET f == cpp_files[idx]
       IN  /\ test_dir' = WriteFile(test_dir, TestName(f), InitialTest(f), outcome)
           /\ log' = Append(log, Event("generate", PathText(f), outcome = "ok"))
           /\ idx' = AfterItem(idx, outcome = "ok", Len(cpp_files))
    /\ UNCHANGED <<pc, cpp_files, test_files, build_log, reported, run>>
    /\ UNCHANGED <<llm_vars, walk_vars>>

\* Stage 2 begins: os.listdir(test_dir), filtered by suffix, in any order.
ListTests ==
    /\ pc = "generate"
    /\ idx > Len(cpp_files)
    /\ test_files' \in Orders({n \in DOMAIN test_dir : EndsWithSourceSuffix(n)})
    /\ pc' = "refine"
    /\ idx' = 1
    /\ UNCHANGED <<cpp_files, test_dir, log, build_log, reported, run>>
    /\ UNCHANGED <<llm_vars, walk_vars>>

\* Stage 2, one pass of the loop over test_files.
Refine(outcome) ==
    /\ pc = "refine"
    /\ idx <= Len(test_files)
    /\ LET n == test_files[idx]
       IN  /\ test_dir' = WriteFile(test_dir, n, RefinedTest(test_dir[n]), outcome)
           /\ log' = Append(log, Event("refine", n, outcome = "ok"))
           /\ idx' = AfterItem(idx, outcome = "ok", Len(test_files))
    /\ UNCHANGED <<pc, cpp_files, test_files, build_log, reported, run>>
    /\ UNCHANGED <<llm_vars, walk_vars>>

\* Stage 3: build_project returns.
Build(configure, build) ==
    /\ pc = "refine"
    /\ idx > Len(test_files)
    /\ LET r == BuildProject(configure, build)
       IN  /\ build_log' = r[2]
           /\ log' = Append(log, Event("build", <<>>, r[1]))
           /\ pc' = AfterBuild(r[1])
    /\ UNCHANGED <<cpp_files, idx, test_dir, test_files, reported, run>>
    /\ UNCHANGED <<llm_vars, walk_vars>>

\* Stage 3: the build tool cannot be started; the exception leaves main.
BuildCrashes ==
    /\ pc = "refine"
    /\ idx > Len(test_files)
    /\ log' = Append(log, Event("build", <<"FileNotFoundError">>, FALSE))
    /\ pc' = "crashed"
    /\ UNCHANGED <<cpp_files, idx, test_dir, test_files, build_log, reported, run>>
    /\ UNCHANGED <<llm_vars, walk_vars>>

\* The build failed: read the template, ask the model once, print.
FixBuild(outcome) ==
    /\ pc = "fix"
    /\ log' = log \o
         CASE outcome = "template_error" ->
                <<Event("error", FixTemplate, FALSE)>>
           [] outcome = "llm_error" ->
                <<Event("call_llm", FixPrompt(FixTemplate, build_log), FALSE),
                  Event("error", <<"call_llm">>, FALSE)>>
           [] OTHER ->
                <<Event("call_llm", FixPrompt(FixTemplate, build_log), TRUE)>>
    /\ pc' = "done"
    /\ UNCHANGED <<cpp_files, idx, test_dir, test_files, build_log, reported, run>>
    /\ UNCHANGED <<llm_vars, walk_vars>>

\* Stage 4: run_tests returns.
RunTests(rc) ==
    /\ pc = "tests"
    /\ log' = Append(log, Event("tests", <<>>, TestsPassed(rc)))
    /\ pc' = AfterTests(TestsPassed(rc))
    /\ UNCHANGED <<cpp_files, idx, test_dir, test_files, build_log, reported, run>>
    /\ UNCHANGED <<llm_vars, walk_vars>>

\* Stage 4: the test runner cannot be started; the exception leaves main.
RunTestsCrashes ==
    /\ pc = "tests"
    /\ log' = Append(log, Event("tests", <<"FileNotFoundError">>, FALSE))
    /\ pc' = "crashed"
    /\ UNCHANGED <<cpp_files, idx, test_dir, test_files, build_log, reported, run>>
    /\ UNCHANGED <<llm_vars, walk_vars>>

\* Stage 4: run_coverage inside its try; the path is printed when it returns.
Coverage(lcov, genhtml) ==
    /\ pc = "coverage"
    /\ LET r == RunCoverage(BuildDir, lcov, genhtml)
       IN  /\ log' = Append(log, Event("coverage", <<lcov, genhtml>>, r[1] = "return"))
           /\ reported' = r[2]
    /\ pc' = "done"
    /\ UNCHANGED <<cpp_files, idx, test_dir, test_files, build_log, run>>
    /\ UNCHANGED <<llm_vars, walk_vars>>

\* The program is started again on the same directories.
Rerun ==
    /\ pc \in {"done", "crashed"}
    /\ run < MaxRuns
    /\ run' = run + 1
    /\ pc' = "generate"
    /\ idx' = 1
    /\ test_files' = <<>>
    /\ log' = <<>>
    /\ build_log' = <<>>
    /\ reported' = <<>>
    /\ UNCHANGED <<cpp_files, test_dir>>
    /\ UNCHANGED <<llm_vars, walk_vars>>

MainNext ==
    \/ \E o \in ItemOutcomes : Generate(o)
    \/ ListTests
    \/ \E o \in ItemOutcomes : Refine(o)
    \/ \E c \in ConfigureResults, b \in BuildResults : Build(c, b)
    \/ BuildCrashes
    \/ \E o \in {"ok", "template_error", "llm_error"} : FixBuild(o)
    \/ \E rc \in {0, 1, 8} : RunTests(rc)
    \/ RunTestsCrashes
    \/ \E l \in ToolOutcomes, g \in ToolOutcomes : Coverage(l, g)

\* ===================================================================== *
\*  specifications                                                       *
\* ===================================================================== *
LLMIdle ==
    /\ max_retries = 0 /\ attempt = 0 /\ llm_pc = "idle"
    /\ trace = <<>> /\ llm_ret = "None" /\ llm_err = ""

WalkIdle ==
    /\ project_dir = <<>> /\ tree = {} /\ walk_todo = <<>>
    /\ found = <<>> /\ walk_pc = "idle"

MainIdle ==
    /\ pc = "idle" /\ cpp_files = <<>> /\ idx = 0 /\ test_dir = <<>>
    /\ test_files = <<>> /\ log = <<>> /\ build_log = <<>>
    /\ reported = <<>> /\ run = 0

InitLLM == LLMInit /\ WalkIdle /\ MainIdle

SpecLLM ==
    /\ InitLLM
    /\ [][LLMNext]_vars

InitWalk == WalkInit /\ LLMIdle /\ MainIdle

SpecWalk ==
    /\ InitWalk
    /\ [][WalkNext]_vars

InitMain == MainInit /\ LLMIdle /\ WalkIdle

SpecMain ==
    /\ InitMain
    /\ [][MainNext]_vars

RunsNext == MainNext \/ Rerun

SpecRuns ==
    /\ InitMain
    /\ [][RunsNext]_vars

Spec == SpecMain

\* ===================================================================== *
\*  properties of call_llm (checked under SpecLLM)                       *
\* ===================================================================== *
Terminal == llm_pc \in {"returned", "raised"}

PostIndexes == {i \in 1..Len(trace) : trace[i].ev = "post"}
SleepIndexes == {i \in 1..Len(trace) : trace[i].ev = "sleep"}
FailedPostIndexes == {i \in PostIndexes : trace[i].exc # "none"}
NumPosts == Cardinality(PostIndexes)

\* The kinds of failure the properties speak of.
ConnectionFailures == {"ConnectionError", "ConnectTimeout"}
AnyTimeouts == {"ConnectTimeout", "ReadTimeout"}
ResponseTimeouts == {"ReadTimeout"}
NonTransient == {"HTTPError", "KeyError", "TooManyRedirects"}

\* The trace is k failed requests, a sleep of d after each, then one last
\* request: a request at every odd place, a sleep of d at every even place.
Alternates(k, d) ==
    /\ Len(trace) = 2 * k + 1
    /\ \A i \in 1..Len(trace) :
         IF i % 2 = 1 THEN trace[i].ev = "post" ELSE trace[i] = SleepEvent(d)

\* C1: when every attempt fails with a connection failure and max_retries >= 1,
\* call_llm sends exactly max_retries requests, sleeps 2 after each but the
\* last, and raises the "service unreachable" error; it never sends more
\* than max_retries requests.
C1_RetryBound ==
    /\ NumPosts <= max_retries
    /\ (/\ Terminal
        /\ max_retries >= 1
        /\ \A i \in PostIndexes : trace[i].exc \in ConnectionFailures)
       => /\ llm_pc = "raised"
          /\ llm_err = MsgUnreachable
          /\ NumPosts = max_retries
          /\ Alternates(max_retries - 1, 2)

C1_Witness ==
    /\ llm_pc = "raised"
    /\ max_retries >= 3
    /\ NumPosts = max_retries
    /\ \A i \in PostIndexes : trace[i].exc = "ConnectionError"

\* C2: a failure that is neither a connection failure nor a timeout ends the
\* call at once: it is the last entry of the trace (no sleep and no request
\* follows it), call_llm has raised the generic "API error", and the
\* requests sent are exactly those up to and including that attempt.
C2_NoRetryOnOther ==
    \A i \in PostIndexes :
        trace[i].exc \in NonTransient
        => /\ i = Len(trace)
           /\ llm_pc = "raised"
           /\ llm_err = MsgApiError
           /\ NumPosts = attempt + 1
           /\ NumPosts <= max_retries
           /\ \A j \in PostIndexes : j < i => trace[j].exc \notin NonTransient

C2_Witness ==
    /\ llm_pc = "raised"
    /\ llm_err = MsgApiError
    /\ NumPosts = 2
    /\ max_retries = 3
    /\ trace[Len(trace)].exc = "KeyError"

\* What answers the failure at place i of the trace: the sleep that follows
\* it, or the error raised when nothing follows it.
AnsweredWith(i, d, msg) ==
    IF i < Len(trace)
    THEN /\ trace[i + 1] = SleepEvent(d)
         /\ Cardinality({j \in PostIndexes : j <= i}) < max_retries
    ELSE /\ llm_pc = "raised"
         /\ llm_err = msg
         /\ NumPosts = max_retries

\* C3 as stated: every timeout, one while connecting included, is answered
\* with the sleep of 1 or, on the last attempt, the "request timed out" error.
C3_EveryTimeout ==
    \A i \in PostIndexes :
        trace[i].exc \in AnyTimeouts => AnsweredWith(i, 1, MsgTimedOut)

\* C3 amended: every timeout while waiting for the response is answered with
\* the sleep of 1 or, on the last attempt, the "request timed out" error; a
\* timeout while connecting is a connection failure to the handlers and is
\* answered with the sleep of 2 or the "service unreachable" error.
C3_ResponseTimeout ==
    \A i \in PostIndexes :
        /\ trace[i].exc \in ResponseTimeouts => AnsweredWith(i, 1, MsgTimedOut)
        /\ trace[i].exc = "ConnectTimeout" => AnsweredWith(i, 2, MsgUnreachable)

C3_Witness ==
    /\ llm_pc = "raised"
    /\ llm_err = MsgTimedOut
    /\ max_retries = 3
    /\ \E i, j \in PostIndexes :
         /\ i < j
         /\ trace[i].exc = "ConnectTimeout"
         /\ trace[j].exc = "ReadTimeout"

\* C4: when the first k attempts fail with a connection failure and the next
\* one succeeds, the trace is k+1 requests with a sleep of 2 after each
\* failed one and nothing else, k < max_retries, and the value returned is
\* the completion text of the successful response.
C4_BackoffOrdering ==
    (/\ llm_pc = "returned"
     /\ NumPosts >= 1
     /\ \A i \in FailedPostIndexes : trace[i].exc \in ConnectionFailures)
    => LET k == Cardinality(FailedPostIndexes)
       IN  /\ k < max_retries
           /\ Alternates(k, 2)
           /\ NumPosts = k + 1
           /\ Cardinality(SleepIndexes) = k
           /\ Last(trace).exc = "none"
           /\ llm_ret = Last(trace).text
           /\ llm_ret \in Texts

C4_Witness ==
    /\ llm_pc = "returned"
    /\ Cardinality(FailedPostIndexes) = 1
    /\ trace[1].exc = "ConnectionError"
    /\ Len(trace) = 3
    /\ llm_ret = "not even code"

\* C10: connection failures and timeouts draw on one attempt counter: never
\* more than max_retries requests; when a run of such failures ends the
\* call, exactly max_retries requests were sent and the error is the one of
\* the last failure's kind, whatever the kinds before it.
C10_SharedBudget ==
    /\ NumPosts <= max_retries
    /\ NumPosts <= attempt + 1
    /\ (/\ llm_pc = "raised"
        /\ \A i \in PostIndexes : trace[i].exc \in ConnectionFailures \cup ResponseTimeouts)
       => /\ NumPosts = max_retries
          /\ llm_err = IF Last(trace).exc \in ConnectionFailures
                       THEN MsgUnreachable ELSE MsgTimedOut

C10_Witness ==
    /\ llm_pc = "raised"
    /\ max_retries = 3
    /\ trace[1].exc = "ReadTimeout"
    /\ trace[3].exc = "ConnectionError"
    /\ Last(trace).exc = "ReadTimeout"
    /\ llm_err = MsgTimedOut

\* ===================================================================== *
\*  properties of collect_cpp_files (checked under SpecWalk)             *
\* ===================================================================== *
HasExcludedSegment(segs) == \E i \in 1..Len(segs) : segs[i] = ExcludedName

\* C5: the list returned holds exactly the files with a source suffix whose
\* path has no segment equal to the excluded name, each of them once.
C5_DiscoveryResult ==
    walk_pc = "done"
    => LET wanted == {f \in tree : /\ EndsWithSourceSuffix(f.name)
                                   /\ ~HasExcludedSegment(project_dir \o f.dir)}
       IN  /\ Range(found) = wanted
           /\ Len(found) = Cardinality(wanted)

\* ===================================================================== *
\*  properties of main (checked under SpecMain and SpecRuns)             *
\* ===================================================================== *
EventIndexes(op) == {i \in 1..Len(log) : log[i].op = op}
EventsOf(op) == SelectSeq(log, LAMBDA e : e.op = op)
AfterStage1 == pc \notin {"idle", "generate"}
AfterStage2 == pc \notin {"idle", "generate", "refine"}

\* C6: two discovered source files never share a generated test file, and
\* once initial generation has succeeded for every discovered file (in this
\* run, whatever run it is) the output directory holds one test file per
\* discovered file, each one the test of its own source file.
C6_OneTestPerSource ==
    (/\ AfterStage1
     /\ \A i \in EventIndexes("generate") : log[i].ok)
    => /\ \A i, j \in 1..Len(cpp_files) :
            i # j => TestName(cpp_files[i]) # TestName(cpp_files[j])
       /\ Cardinality(DOMAIN test_dir) = Len(cpp_files)
       /\ (pc = "refine" /\ idx = 1)
           => \A i \in 1..Len(cpp_files) :
                 /\ TestName(cpp_files[i]) \in DOMAIN test_dir
                 /\ test_dir[TestName(cpp_files[i])].from = cpp_files[i]

\* C7: whatever fails, stage 1 attempts every discovered file in listing
\* order, stage 2 then attempts every listed test file in listing order,
\* the build is invoked once after both, a failed item writes no test, and
\* the run never stops before the build.
C7_PerItemFailure ==
    LET gen == EventsOf("generate")
        ref == EventsOf("refine")
    IN  /\ Len(gen) = (IF pc = "generate" THEN idx - 1 ELSE Len(cpp_files))
        /\ \A i \in 1..Len(gen) : gen[i].arg = PathText(cpp_files[i])
        /\ Len(ref) = (IF pc = "generate" THEN 0
                       ELSE IF pc = "refine" THEN idx - 1 ELSE Len(test_files))
        /\ \A i \in 1..Len(ref) : ref[i].arg = test_files[i]
        /\ \A i \in 1..Len(log) :
             /\ log[i].op = "generate" => i <= Len(gen)
             /\ log[i].op = "refine" => i <= Len(gen) + Len(ref)
             /\ log[i].op = "build" => i = Len(cpp_files) + Len(test_files) + 1
        /\ Cardinality(EventIndexes("build")) = (IF AfterStage2 THEN 1 ELSE 0)
        /\ \A n \in DOMAIN test_dir :
             /\ test_dir[n].stage = "initial"
                => \E i \in 1..Len(gen) :
                      gen[i].ok /\ gen[i].arg = PathText(test_dir[n].from)
             /\ test_dir[n].stage = "refined"
                => \E i \in 1..Len(ref) : ref[i].ok /\ ref[i].arg = n
        /\ pc \in {"generate", "refine"} => ENABLED MainNext

C7_Witness ==
    /\ pc = "done"
    /\ Len(cpp_files) = 2
    /\ Len(test_files) >= 1
    /\ \A i \in EventIndexes("generate") \cup EventIndexes("refine") : ~log[i].ok
    /\ Cardinality(EventIndexes("refine")) = Len(test_files)
    /\ Cardinality(EventIndexes("build")) = 1

\* build_project returned failure (it reported it; the tool did start).
BuildFailed == \E i \in EventIndexes("build") : ~log[i].ok /\ log[i].arg = <<>>

NoTestsNoCoverage ==
    /\ EventIndexes("tests") = {}
    /\ EventIndexes("coverage") = {}
    /\ reported = <<>>

\* C8 as stated: after a failed build the model client is called exactly
\* once with a prompt holding the build log, nothing else runs, and the run
\* ends normally.
C8_ExactlyOneCall ==
    (pc = "done" /\ BuildFailed)
    => /\ Cardinality(EventIndexes("call_llm")) = 1
       /\ \A i \in EventIndexes("call_llm") : Contains(log[i].arg, build_log)
       /\ Cardinality(EventIndexes("build")) = 1
       /\ NoTestsNoCoverage

C8_State ==
    BuildFailed
    => /\ pc \in {"fix", "done"}
       /\ Cardinality(EventIndexes("build")) = 1
       /\ NoTestsNoCoverage
       /\ Len(build_log) > 0
       /\ Cardinality(EventIndexes("call_llm")) <= 1
       /\ \A i \in EventIndexes("call_llm") :
            /\ Contains(log[i].arg, build_log)
            /\ ~log[i].ok => (i < Len(log) /\ log[i + 1].op = "error")
       /\ pc = "done"
          => (Cardinality(EventIndexes("call_llm")) = 1
              <=> ~\E i \in EventIndexes("error") : log[i].arg = FixTemplate)

\* C8 amended: after a failed build the model client is called at most once,
\* and exactly once when the build-fix template could be read, with a prompt
\* holding the build log; the test runner, coverage and a second build are
\* never invoked; a failed call is logged and the run ends normally; and no
\* file of the output directory changes once the build has been invoked.
C8_BuildFailureBranch ==
    /\ []C8_State
    /\ [][AfterStage2 => test_dir' = test_dir]_vars

C8_Witness ==
    /\ pc = "done"
    /\ BuildFailed
    /\ build_log = <<"error: X">>
    /\ \E i \in EventIndexes("call_llm") : ~log[i].ok

TestsOk == \E i \in EventIndexes("tests") : log[i].ok
BuildOkBefore(i) == \E j \in EventIndexes("build") : j < i /\ log[j].ok

\* C9 as stated: gating, and whenever the test runner exits zero the
\* coverage report path is reported.
C9_ReportedWheneverTestsPass ==
    /\ \A i \in EventIndexes("tests") : BuildOkBefore(i)
    /\ \A i \in EventIndexes("coverage") : BuildOkBefore(i) /\ TestsOk
    /\ (pc = "done" /\ TestsOk)
       => /\ Cardinality(EventIndexes("coverage")) = 1
          /\ reported = <<"build", "/", "coverage/index.html">>

\* C9 amended: the test runner is invoked only after a successful build;
\* coverage generation is invoked, once, exactly when the build succeeded
\* and the test runner exited zero; whenever both coverage tools could be
\* started the path <build_dir>/coverage/index.html is reported, whatever
\* they exit with; when one cannot be started, or the tests fail, no path is
\* reported.
C9_Gating ==
    /\ \A i \in EventIndexes("tests") : BuildOkBefore(i)
    /\ Cardinality(EventIndexes("tests")) <= 1
    /\ Cardinality(EventIndexes("coverage")) <= 1
    /\ \A i \in EventIndexes("coverage") :
         /\ BuildOkBefore(i) /\ TestsOk
         /\ IF "missing" \in Range(log[i].arg)
            THEN ~log[i].ok /\ reported = <<>>
            ELSE log[i].ok /\ reported = <<"build", "/", "coverage/index.html">>
    /\ (pc = "done" /\ TestsOk) => Cardinality(EventIndexes("coverage")) = 1
    /\ (\E i \in EventIndexes("tests") : ~log[i].ok) => (EventIndexes("coverage") = {} /\ reported = <<>>)
    /\ EventIndexes("coverage") = {} => reported = <<>>

C9_Witness ==
    /\ pc = "done"
    /\ TestsOk
    /\ \E i \in EventIndexes("coverage") : log[i].arg = <<"nonzero", "nonzero">>
    /\ reported = <<"build", "/", "coverage/index.html">>
====
